---- MODULE Spec2Model ----
(***************************************************************************)
(* Model of src/server.js: the ETH conversion backend.                     *)
(*                                                                         *)
(* One process per in-flight call of universalConvert (request slots       *)
(* 1..NumReq) plus process 0, the start-up call of initProvider.  Every    *)
(* action is one run-to-completion turn of the Node.js event loop: the     *)
(* code between two awaits.                                                *)
(*                                                                         *)
(* Numbers.  Native amounts are integers in gwei (1e-9 ETH), which is      *)
(* below the 8-decimal precision of toFixed(8) and the 6-decimal precision *)
(* of toFixed(6), so both conversions round.  A JavaScript number is a     *)
(* record [nan, v]; NaN is what parseFloat gives for a non-numeric value.  *)
(* Rounding of IEEE doubles below one gwei is not modelled.                *)
(***************************************************************************)
EXTENDS Integers, Sequences, FiniteSets, TLC

(* ------------------------------ bounds --------------------------------- *)

\* Request slots: how many calls of universalConvert may be in flight at once.
NumReq == 2

\* Requests served over the life of the process.
MaxRequests == 2

\* Candidate endpoints: the length of RPC_URLS (6 in the source; the loop of
\* initProvider treats every entry alike).
NumRpc == 3

(* ------------------------- program constants --------------------------- *)

\* null / undefined of a numeric field.
Null == -1

\* 0.002 ETH, the gas reserve, in gwei.
Reserve == 2000000

\* 0.01 ETH, the fallback native amount, in gwei.
FallbackAmount == 10000000

\* ETH price in USD used by the fiat mode.
Rate == 3450

\* gasLimit of a plain transfer.
GasLimit == 21000

\* chainId
ChainId == 1

\* The percentage cap of Math.min(100, ...).
PctCap == 100

\* Address ids: 1..6 are the addresses a request may carry in its six
\* destination fields, TREASURY is the hardcoded default.
TREASURY == 7

(* --------------------------- JavaScript values ------------------------- *)

\* A JSON body field: absent (undefined), a number, a numeric string, or a
\* non-numeric non-empty string.
Undef == [t |-> "undef", v |-> 0]
JNum(n) == [t |-> "num", v |-> n]
JStr(n) == [t |-> "str", v |-> n]
Junk == [t |-> "junk", v |-> 0]

\* JavaScript truthiness of a body field: undefined and the number 0 are
\* falsy, every non-empty string (even "0") is truthy.
Truthy(x) == \/ x.t = "str"
             \/ x.t = "junk"
             \/ (x.t = "num" /\ x.v # 0)

\* A JavaScript number.
Num(n) == [nan |-> FALSE, v |-> n]
NaN == [nan |-> TRUE, v |-> 0]

\* parseFloat(x)
ParseFloat(x) == IF x.t \in {"num", "str"} THEN Num(x.v) ELSE NaN

\* Math.min(a, b): NaN if either argument is NaN.
MathMin(a, b) == IF a.nan \/ b.nan THEN NaN
                 ELSE IF a.v <= b.v THEN a ELSE b

\* a || b on numbers: NaN and 0 are falsy.
NumOr(a, b) == IF a.nan \/ a.v = 0 THEN b ELSE a

\* a <= 0 : false for NaN.
LeqZero(a) == ~a.nan /\ a.v <= 0

\* x || y on body fields.
Or(x, y) == IF Truthy(x) THEN x ELSE y

(* ------------------------------ conversions ---------------------------- *)

\* Mutant of ToFixed6: the balance truncated, not rounded.
ToFixed6_Truncated(b) == b \div 1000

\* balanceETH.toFixed(6): the balance rounded to 1e-6 ETH, as a count of
\* micro-ETH ("0.001000" is 1000).
ToFixed6(b) == (b + 500) \div 1000

\* ethers.parseEther(ethAmount.toFixed(8)): the amount rounded to 1e-8 ETH,
\* in gwei.  Defined for numbers only; "NaN" makes parseEther throw.
ParseEtherFixed8(a) == ((a.v + 5) \div 10) * 10

\* parseFloat(amountUSD) / 3450, dollars to gwei (at micro-ETH resolution).
FiatToEth(usd) == IF usd.nan THEN NaN
                  ELSE Num(((usd.v * 1000000) \div Rate) * 1000)

(* --------------------------- amount resolution ------------------------- *)

\* (balanceETH * Math.min(100, parseFloat(percentage)) / 100) - 0.002
PercentageAmount(balanceETH, percentage) ==
  LET p == MathMin(Num(PctCap), ParseFloat(percentage))
  IN  IF p.nan THEN NaN ELSE Num((balanceETH * p.v) \div 100 - Reserve)

\* Math.min(parseFloat(amountUSD) / 3450, balanceETH - 0.002)
FiatAmount(balanceETH, amountUSD) ==
  MathMin(FiatToEth(ParseFloat(amountUSD)), Num(balanceETH - Reserve))

\* Math.min(parseFloat(amountETH || amount || value || eth) || 0.01,
\*          balanceETH - 0.002)
NativeAmount(balanceETH, b) ==
  MathMin(NumOr(ParseFloat(Or(b.amountETH, Or(b.amount, Or(b.value, b.eth)))),
                Num(FallbackAmount)),
          Num(balanceETH - Reserve))

\* Lines 71-78: the mode is chosen by the truthiness of the fields.
ResolveAmount(balanceETH, b) ==
  IF Truthy(b.percentage) THEN PercentageAmount(balanceETH, b.percentage)
  ELSE IF Truthy(b.amountUSD) THEN FiatAmount(balanceETH, b.amountUSD)
  ELSE NativeAmount(balanceETH, b)

(* ------------------------- destination resolution ---------------------- *)

\* Mutant of ResolveDestination: recipient is read before treasury.
ResolveDestination_RecipientFirst(b) ==
  IF b.to # 0 THEN b.to
  ELSE IF b.toAddress # 0 THEN b.toAddress
  ELSE IF b.recipient # 0 THEN b.recipient
  ELSE IF b.treasury # 0 THEN b.treasury
  ELSE IF b.coinbaseWallet # 0 THEN b.coinbaseWallet
  ELSE IF b.feeRecipient # 0 THEN b.feeRecipient
  ELSE TREASURY

\* A destination field holds an address id, or 0 when absent or empty.
\* to || toAddress || treasury || recipient || coinbaseWallet || feeRecipient
\*    || TREASURY
ResolveDestination(b) ==
  IF b.to # 0 THEN b.to
  ELSE IF b.toAddress # 0 THEN b.toAddress
  ELSE IF b.treasury # 0 THEN b.treasury
  ELSE IF b.recipient # 0 THEN b.recipient
  ELSE IF b.coinbaseWallet # 0 THEN b.coinbaseWallet
  ELSE IF b.feeRecipient # 0 THEN b.feeRecipient
  ELSE TREASURY

(* ------------------------------ fee strategy --------------------------- *)

\* Mutant of BuildTx: the shape is chosen by the presence of gasPrice.
BuildTx_ByGasPrice(destination, ethAmount, nonce, feeData) ==
  IF feeData.gasPrice # Null
  THEN [to |-> destination, value |-> ParseEtherFixed8(ethAmount),
        nonce |-> nonce, gasLimit |-> GasLimit,
        maxFeePerGas |-> feeData.maxFeePerGas,
        maxPriorityFeePerGas |-> feeData.maxPriorityFeePerGas,
        gasPrice |-> Null, type |-> 2, chainId |-> ChainId]
  ELSE [to |-> destination, value |-> ParseEtherFixed8(ethAmount),
        nonce |-> nonce, gasLimit |-> GasLimit,
        maxFeePerGas |-> Null, maxPriorityFeePerGas |-> Null,
        gasPrice |-> feeData.gasPrice, type |-> Null, chainId |-> ChainId]

\* Lines 94-115: the transaction built from the request's locals.
BuildTx(destination, ethAmount, nonce, feeData) ==
  IF feeData.maxFeePerGas # Null
  THEN [to |-> destination, value |-> ParseEtherFixed8(ethAmount),
        nonce |-> nonce, gasLimit |-> GasLimit,
        maxFeePerGas |-> feeData.maxFeePerGas,
        maxPriorityFeePerGas |-> feeData.maxPriorityFeePerGas,
        gasPrice |-> Null, type |-> 2, chainId |-> ChainId]
  ELSE [to |-> destination, value |-> ParseEtherFixed8(ethAmount),
        nonce |-> nonce, gasLimit |-> GasLimit,
        maxFeePerGas |-> Null, maxPriorityFeePerGas |-> Null,
        gasPrice |-> feeData.gasPrice, type |-> Null, chainId |-> ChainId]

(* --------------------------------- state ------------------------------- *)

VARIABLES
  PRIVATE_KEY,  \* whether process.env.TREASURY_PRIVATE_KEY is set
  provider,     \* the global provider: 0 is null, i is RPC_URLS[i]
  wallet,       \* the global wallet: 0 is null, i is a wallet bound to RPC_URLS[i]
  chain,        \* the network: the signer's balance, the transaction count
                \* including pending transactions, the block height
  pc,           \* where each process is suspended
  body,         \* req.body of each request
  loc,          \* the locals of each process
  resp,         \* the response sent for each request
  calls,        \* the calls each process has issued so far, in order
  signedTxs,    \* how many transactions the process has signed, by nonce
  probe,        \* of the provider object the global now refers to: the
                \* process that created it and the state of its liveness probe
  served        \* the number of requests received so far

vars == <<PRIVATE_KEY, provider, wallet, chain, pc, body, loc, resp, calls,
          signedTxs, probe, served>>

Reqs == 1..NumReq
Procs == 0..NumReq

(* ------------------------------- inputs -------------------------------- *)

EmptyBody ==
  [amount |-> Undef, amountETH |-> Undef, amountUSD |-> Undef,
   value |-> Undef, eth |-> Undef, percentage |-> Undef,
   to |-> 0, toAddress |-> 0, treasury |-> 0, recipient |-> 0,
   coinbaseWallet |-> 0, feeRecipient |-> 0]

\* Percentages: absent, 0, 50, 100, 150, -5, the string "0", a non-number.
PctValues == {Undef, JNum(0), JNum(50), JNum(100), JNum(150), JNum(0 - 5),
              JStr(0), Junk}

\* Dollar amounts: absent, 0, 10, 100, a non-number.
UsdValues == {Undef, JNum(0), JNum(10), JNum(100), Junk}

\* Native amounts in gwei: absent, 0, 3 gwei, 0.005, 0.02, negative, a
\* numeric string, a non-number.
EthValues == {Undef, JNum(0), JNum(3), JNum(5000000), JNum(20000000),
              JNum(0 - 1000000), JStr(5000000), Junk}

\* Bodies that exercise the percentage mode against the other two.
PctBodies ==
  {[EmptyBody EXCEPT !.percentage = p, !.amountUSD = u, !.amountETH = e] :
     p \in PctValues, u \in {Undef, JNum(10)}, e \in {Undef, JNum(5000000)}}

\* Bodies that exercise the fiat mode against the native mode.
UsdBodies ==
  {[EmptyBody EXCEPT !.amountUSD = u, !.amountETH = e, !.amount = a] :
     u \in UsdValues, e \in {Undef, JNum(5000000)},
     a \in {Undef, JNum(4000000)}}

\* Bodies that exercise the native aliases.
EthBodies ==
  {[EmptyBody EXCEPT !.amountETH = e, !.amount = a, !.value = v, !.eth = x] :
     e \in EthValues, a \in {Undef, JNum(4000000)},
     v \in {Undef, JNum(0), JNum(3000000)}, x \in {Undef, JNum(1000000)}}

\* Bodies that exercise the six destination fields: field k, when present,
\* holds address k.
DestBodies ==
  {[EmptyBody EXCEPT !.to = IF 1 \in S THEN 1 ELSE 0,
                     !.toAddress = IF 2 \in S THEN 2 ELSE 0,
                     !.treasury = IF 3 \in S THEN 3 ELSE 0,
                     !.recipient = IF 4 \in S THEN 4 ELSE 0,
                     !.coinbaseWallet = IF 5 \in S THEN 5 ELSE 0,
                     !.feeRecipient = IF 6 \in S THEN 6 ELSE 0] :
     S \in SUBSET (1..6)}

SeqBodies == PctBodies \cup UsdBodies \cup EthBodies \cup DestBodies

ConcBodies == {EmptyBody, [EmptyBody EXCEPT !.amountETH = JNum(5000000)]}

\* Balances in gwei: 0.0010004, 0.0019996, 0.002, 0.002000003, 0.01.
SeqBalances == {1000400, 1999600, 2000000, 2000003, 10000000}

ConcBalances == {10000000}

\* What provider.getFeeData() may resolve to: EIP-1559 data, or a legacy gas
\* price only (maxFeePerGas null).  ethers never reports a maxFeePerGas of 0.
FeeDataSet ==
  {[maxFeePerGas |-> 30, maxPriorityFeePerGas |-> 2, gasPrice |-> 20],
   [maxFeePerGas |-> Null, maxPriorityFeePerGas |-> Null, gasPrice |-> 25]}

\* The concurrent specification fixes the fee data.
ConcFeeData ==
  {[maxFeePerGas |-> 30, maxPriorityFeePerGas |-> 2, gasPrice |-> 20]}

(* ------------------------------ initial state -------------------------- *)

NoFee == [maxFeePerGas |-> Null, maxPriorityFeePerGas |-> Null,
          gasPrice |-> Null]

NoTx == [to |-> 0, value |-> Null, nonce |-> Null, gasLimit |-> Null,
         maxFeePerGas |-> Null, maxPriorityFeePerGas |-> Null,
         gasPrice |-> Null, type |-> Null, chainId |-> Null]

\* The receipt of wait(1), before there is one.
NoReceipt == [blockNumber |-> Null, gasUsed |-> Null]

\* The locals of a call.  txResponse is the hash the broadcast returned (a
\* hash stands for the signed transaction it is the hash of); balanceAtTx
\* is not a local of the code: it records how many transactions the node had
\* accepted when the balance was read.
NoLoc == [rpc |-> 0, ret |-> "none", destination |-> 0,
          balanceETH |-> Null, balanceAtTx |-> Null, ethAmount |-> Num(0),
          feeData |-> NoFee, nonce |-> Null, tx |-> NoTx,
          txResponse |-> NoTx, receipt |-> NoReceipt]

NoResp == [status |-> 0, error |-> "", at |-> "", balance |-> Null,
           hint |-> FALSE, to |-> 0, amount |-> Num(0),
           txHash |-> NoTx, hash |-> NoTx, transactionHash |-> NoTx,
           blockNumber |-> Null, gasUsed |-> Null]

Call(op, rpc) == [op |-> op, rpc |-> rpc]

\* Module load runs initProvider() up to its first await (line 186): the
\* provider is RPC_URLS[1] and its probe is in flight.  The server does not
\* listen yet.
InitWith(balances) ==
  /\ PRIVATE_KEY \in BOOLEAN
  /\ provider = 1
  /\ wallet = 0
  /\ chain \in {[balance |-> b, txCount |-> 0, height |-> 0] : b \in balances}
  /\ pc = [p \in Procs |-> IF p = 0 THEN "probing" ELSE "idle"]
  /\ body = [p \in Procs |-> EmptyBody]
  /\ loc = [p \in Procs |-> IF p = 0 THEN [NoLoc EXCEPT !.rpc = 1] ELSE NoLoc]
  /\ resp = [p \in Procs |-> NoResp]
  /\ calls = [p \in Procs |-> IF p = 0 THEN <<Call("probe", 1)>> ELSE <<>>]
  /\ signedTxs = [n \in 0..MaxRequests |-> 0]
  /\ probe = [by |-> 0, live |-> "pending"]
  /\ served = 0

Init == InitWith(ConcBalances)

InitSeq == InitWith(SeqBalances)

(* ------------------------------ initProvider --------------------------- *)

\* Line 34-35 for RPC_URLS[i]: bind the global provider to a fresh object
\* and start its probe, raced against the 5 s timer.
OpenAndProbe(p, i) ==
  /\ provider' = i
  /\ probe' = [by |-> p, live |-> "pending"]
  /\ loc' = [loc EXCEPT ![p].rpc = i]
  /\ calls' = [calls EXCEPT ![p] = Append(@, Call("probe", i))]
  /\ pc' = [pc EXCEPT ![p] = "probing"]

\* The wallet line 36 creates: bound to whatever the global provider is now.
NewWallet == IF PRIVATE_KEY THEN provider ELSE wallet

\* The probe of process p's current candidate resolved before the timeout:
\* lines 36-38.
ProbeOk(p) ==
  /\ pc[p] = "probing"
  /\ wallet' = NewWallet
  /\ probe' = IF probe.by = p THEN [probe EXCEPT !.live = "ok"] ELSE probe
  /\ loc' = [loc EXCEPT ![p].ret = "true"]
  /\ pc' = [pc EXCEPT ![p] = "init_ret"]
  /\ UNCHANGED <<PRIVATE_KEY, provider, chain, body, resp, calls, signedTxs,
                 served>>

\* Mutant of NextCandidate: a failed candidate is probed again.
NextCandidate_Again(i) == i

\* The candidate after RPC_URLS[i] in the loop of line 32, or 0 when the
\* list is exhausted.
NextCandidate(i) == IF i < NumRpc THEN i + 1 ELSE 0

\* The probe rejected or the timer won: line 39, then the next iteration up
\* to its await, or line 41.
ProbeFail(p) ==
  /\ pc[p] = "probing"
  /\ IF NextCandidate(loc[p].rpc) # 0
     THEN OpenAndProbe(p, NextCandidate(loc[p].rpc))
     ELSE /\ probe' = IF probe.by = p THEN [probe EXCEPT !.live = "failed"]
                      ELSE probe
          /\ loc' = [loc EXCEPT ![p].ret = "false"]
          /\ pc' = [pc EXCEPT ![p] = "init_ret"]
          /\ UNCHANGED <<provider, calls>>
  /\ UNCHANGED <<PRIVATE_KEY, wallet, chain, body, resp, signedTxs, served>>

\* Line 186: the start-up call returned, the server starts to listen.
Listen ==
  /\ pc[0] = "init_ret"
  /\ pc' = [pc EXCEPT ![0] = "listening"]
  /\ UNCHANGED <<PRIVATE_KEY, provider, wallet, chain, body, loc, resp, calls,
                 signedTxs, probe, served>>

(* ----------------------------- universalConvert ------------------------ *)

Respond(r, response) ==
  /\ resp' = [resp EXCEPT ![r] = response]
  /\ pc' = [pc EXCEPT ![r] = "responded"]

\* Line 57 to the await of line 63.
AfterInitProvider(r, b, l) ==
  IF wallet = 0
  THEN /\ Respond(r, [NoResp EXCEPT !.status = 500,
                                    !.error = "Wallet not configured"])
       /\ loc' = [loc EXCEPT ![r] = l]
       /\ UNCHANGED calls
  ELSE /\ loc' = [loc EXCEPT ![r] = [l EXCEPT !.destination =
                                                 ResolveDestination(b)]]
       /\ calls' = [calls EXCEPT ![r] = Append(@, Call("getBalance", provider))]
       /\ pc' = [pc EXCEPT ![r] = "await_balance"]
       /\ UNCHANGED resp

\* Whether line 56 calls initProvider.
NeedsInit == provider = 0 \/ wallet = 0

\* A request arrives: lines 50-56, and on to the first await.
Start(r, bodies) ==
  /\ pc[0] = "listening"
  /\ pc[r] = "idle"
  /\ served < MaxRequests
  /\ served' = served + 1
  /\ \E b \in bodies :
       /\ body' = [body EXCEPT ![r] = b]
       /\ IF NeedsInit
          THEN /\ provider' = 1
               /\ probe' = [by |-> r, live |-> "pending"]
               /\ loc' = [loc EXCEPT ![r] = [NoLoc EXCEPT !.rpc = 1]]
               /\ calls' = [calls EXCEPT ![r] = <<Call("probe", 1)>>]
               /\ pc' = [pc EXCEPT ![r] = "probing"]
               /\ UNCHANGED resp
          ELSE /\ AfterInitProvider(r, b, NoLoc)
               /\ UNCHANGED <<provider, probe>>
  /\ UNCHANGED <<PRIVATE_KEY, wallet, chain, signedTxs>>

\* await initProvider() resumes.
InitReturned(r) ==
  /\ r \in Reqs
  /\ pc[r] = "init_ret"
  /\ AfterInitProvider(r, body[r], loc[r])
  /\ UNCHANGED <<PRIVATE_KEY, provider, wallet, chain, body, signedTxs, probe,
                 served>>

\* Lines 66-68 and 80-86: the 400 responses.
NeedGasResponse(balanceETH) ==
  [NoResp EXCEPT !.status = 400, !.error = "Need 0.002 ETH for gas",
                 !.balance = ToFixed6(balanceETH)]

InsufficientResponse(balanceETH) ==
  [NoResp EXCEPT !.status = 400, !.error = "Insufficient after gas reserve",
                 !.balance = ToFixed6(balanceETH), !.hint = TRUE]

\* Line 66.
BelowReserve(balanceETH) == balanceETH < Reserve

\* Mutant of ReadBalance: the amounts of the transactions still pending are
\* held back from the balance a request sees.
ReadBalance_LessPending ==
  chain.balance - (chain.txCount - chain.height) * FallbackAmount

\* What provider.getBalance(wallet.address) resolves to, line 63: the
\* signer's balance on the chain; pending transactions do not count.
ReadBalance == chain.balance

\* getBalance resolved: lines 64-91.
BalanceOk(r) ==
  /\ pc[r] = "await_balance"
  /\ LET balanceETH == ReadBalance
         ethAmount == ResolveAmount(balanceETH, body[r])
     IN  /\ loc' = [loc EXCEPT ![r].balanceETH = balanceETH,
                               ![r].balanceAtTx = chain.txCount,
                               ![r].ethAmount =
                                  IF BelowReserve(balanceETH) THEN @
                                  ELSE ethAmount]
         /\ IF BelowReserve(balanceETH)
            THEN Respond(r, NeedGasResponse(balanceETH)) /\ UNCHANGED calls
            ELSE IF LeqZero(ethAmount)
            THEN Respond(r, InsufficientResponse(balanceETH))
                 /\ UNCHANGED calls
            ELSE /\ calls' = [calls EXCEPT
                                ![r] = Append(@, Call("getFeeData", provider))]
                 /\ pc' = [pc EXCEPT ![r] = "await_fee"]
                 /\ UNCHANGED resp
  /\ UNCHANGED <<PRIVATE_KEY, provider, wallet, chain, body, signedTxs, probe,
                 served>>

\* getFeeData resolved: lines 91-92.
FeeOk(r, fees) ==
  /\ pc[r] = "await_fee"
  /\ \E fd \in fees : loc' = [loc EXCEPT ![r].feeData = fd]
  /\ calls' = [calls EXCEPT
                 ![r] = Append(@, Call("getTransactionCount", provider))]
  /\ pc' = [pc EXCEPT ![r] = "await_nonce"]
  /\ UNCHANGED <<PRIVATE_KEY, provider, wallet, chain, body, resp, signedTxs,
                 probe, served>>

\* The 500 response of the catch block, lines 135-138.
ErrorResponse(at) == [NoResp EXCEPT !.status = 500, !.error = "Error",
                                    !.at = at]

\* getTransactionCount(address, 'pending') resolved: lines 92-117.
\* parseEther throws on "NaN".
NonceOk(r) ==
  /\ pc[r] = "await_nonce"
  /\ LET l == loc[r]
         nonce == chain.txCount
     IN  IF l.ethAmount.nan
         THEN /\ loc' = [loc EXCEPT ![r].nonce = nonce]
              /\ Respond(r, ErrorResponse("parseEther"))
              /\ UNCHANGED calls
         ELSE /\ loc' = [loc EXCEPT
                           ![r].nonce = nonce,
                           ![r].tx = BuildTx(l.destination, l.ethAmount,
                                             nonce, l.feeData)]
              /\ calls' = [calls EXCEPT
                             ![r] = Append(@, Call("signTransaction", wallet))]
              /\ pc' = [pc EXCEPT ![r] = "await_sign"]
              /\ UNCHANGED resp
  /\ UNCHANGED <<PRIVATE_KEY, provider, wallet, chain, body, signedTxs, probe,
                 served>>

\* The history of signed transactions counts them by nonce.
RecordSigned(tx) == [signedTxs EXCEPT ![tx.nonce] = @ + 1]

\* signTransaction resolved: lines 117-118.
SignOk(r) ==
  /\ pc[r] = "await_sign"
  /\ signedTxs' = RecordSigned(loc[r].tx)
  /\ calls' = [calls EXCEPT
                 ![r] = Append(@, Call("broadcastTransaction", provider))]
  /\ pc' = [pc EXCEPT ![r] = "await_broadcast"]
  /\ UNCHANGED <<PRIVATE_KEY, provider, wallet, chain, body, loc, resp, probe,
                 served>>

\* The node accepted the transaction: its nonce is the signer's next one.
\* Lines 118-121.
BroadcastOk(r) ==
  /\ pc[r] = "await_broadcast"
  /\ loc[r].tx.nonce = chain.txCount
  /\ chain' = [chain EXCEPT !.txCount = @ + 1]
  /\ loc' = [loc EXCEPT ![r].txResponse = loc[r].tx]
  /\ calls' = [calls EXCEPT ![r] = Append(@, Call("wait", 1))]
  /\ pc' = [pc EXCEPT ![r] = "await_wait"]
  /\ UNCHANGED <<PRIVATE_KEY, provider, wallet, body, resp, signedTxs,
                 probe, served>>

\* Mutant of SuccessResponse: the block number is not the receipt's.
SuccessResponse_NoReceipt(l, receipt) ==
  [NoResp EXCEPT !.status = 200, !.txHash = l.txResponse,
                 !.hash = l.txResponse, !.transactionHash = l.txResponse,
                 !.to = l.destination, !.amount = l.ethAmount,
                 !.blockNumber = l.nonce,
                 !.gasUsed = receipt.gasUsed]

\* Lines 123-134.
SuccessResponse(l, receipt) ==
  [NoResp EXCEPT !.status = 200, !.txHash = l.txResponse,
                 !.hash = l.txResponse, !.transactionHash = l.txResponse,
                 !.to = l.destination, !.amount = l.ethAmount,
                 !.blockNumber = receipt.blockNumber,
                 !.gasUsed = receipt.gasUsed]

\* Mutant of WaitOk: the request is answered although no block has included
\* its transaction.
WaitOk_Unmined(r) ==
  /\ pc[r] = "await_wait"
  /\ Respond(r, SuccessResponse(loc[r], NoReceipt))
  /\ UNCHANGED <<PRIVATE_KEY, provider, wallet, chain, body, loc, calls,
                 signedTxs, probe, served>>

\* The transaction was included in a block and wait(1) resolved with its
\* receipt: lines 121-134.
WaitOk(r) ==
  /\ pc[r] = "await_wait"
  /\ chain.balance >= loc[r].tx.value
  /\ chain' = [chain EXCEPT !.balance = @ - loc[r].tx.value,
                            !.height = @ + 1]
  /\ LET receipt == [blockNumber |-> chain.height + 1, gasUsed |-> GasLimit]
     IN  /\ loc' = [loc EXCEPT ![r].receipt = receipt]
         /\ Respond(r, SuccessResponse(loc[r], receipt))
  /\ UNCHANGED <<PRIVATE_KEY, provider, wallet, body, calls, signedTxs,
                 probe, served>>

Awaits == {"await_balance", "await_fee", "await_nonce", "await_sign",
           "await_broadcast", "await_wait"}

\* Mutant of Rejected: a rejected broadcast is sent once more before the
\* request gives up.
Rejected_Retry(r) ==
  /\ pc[r] \in Awaits
  /\ IF pc[r] = "await_broadcast" /\ Len(calls[r]) < 2 * NumRpc + 6
     THEN /\ calls' = [calls EXCEPT
                         ![r] = Append(@, Call("broadcastTransaction",
                                               provider))]
          /\ UNCHANGED <<pc, resp>>
     ELSE /\ Respond(r, ErrorResponse(pc[r]))
          /\ UNCHANGED calls
  /\ UNCHANGED <<PRIVATE_KEY, provider, wallet, chain, body, loc, signedTxs,
                 probe, served>>

\* Mutant of Rejected: the rejection escapes the handler and the request is
\* dropped without an answer.
Rejected_Uncaught(r) ==
  /\ pc[r] \in Awaits
  /\ pc' = [pc EXCEPT ![r] = "idle"]
  /\ UNCHANGED <<PRIVATE_KEY, provider, wallet, chain, body, loc, resp, calls,
                 signedTxs, probe, served>>

\* An awaited call rejected: the catch block answers.
Rejected(r) ==
  /\ pc[r] \in Awaits
  /\ Respond(r, ErrorResponse(pc[r]))
  /\ UNCHANGED <<PRIVATE_KEY, provider, wallet, chain, body, loc, calls,
                 signedTxs, probe, served>>

\* The response is on the wire and the call's locals are gone; the slot can
\* take the next request.
Finish(r) ==
  /\ pc[r] = "responded"
  /\ pc' = [pc EXCEPT ![r] = "idle"]
  /\ body' = [body EXCEPT ![r] = EmptyBody]
  /\ loc' = [loc EXCEPT ![r] = NoLoc]
  /\ resp' = [resp EXCEPT ![r] = NoResp]
  /\ calls' = [calls EXCEPT ![r] = <<>>]
  /\ UNCHANGED <<PRIVATE_KEY, provider, wallet, chain, signedTxs, probe,
                 served>>

(* ------------------------------ specifications ------------------------- *)

Step(r, bodies, fees) ==
  \/ Start(r, bodies)
  \/ ProbeOk(r)
  \/ ProbeFail(r)
  \/ InitReturned(r)
  \/ BalanceOk(r)
  \/ FeeOk(r, fees)
  \/ NonceOk(r)
  \/ SignOk(r)
  \/ BroadcastOk(r)
  \/ WaitOk(r)
  \/ Rejected(r)
  \/ Finish(r)

Boot == ProbeOk(0) \/ ProbeFail(0) \/ Listen

\* Concurrent requests.
Next == Boot \/ \E r \in Reqs : Step(r, ConcBodies, ConcFeeData)

Spec == Init /\ [][Next]_vars

\* One request at a time, over the full set of bodies and balances.
NextSeq == Boot \/ Step(1, SeqBodies, FeeDataSet)

SpecSeq == InitSeq /\ [][NextSeq]_vars

\* An awaited call of request r settles: it resolves or it rejects.
Settles(r, fees) ==
  \/ ProbeOk(r)
  \/ ProbeFail(r)
  \/ InitReturned(r)
  \/ BalanceOk(r)
  \/ FeeOk(r, fees)
  \/ NonceOk(r)
  \/ SignOk(r)
  \/ BroadcastOk(r)
  \/ WaitOk(r)
  \/ Rejected(r)

\* Concurrent requests with the default body.
NextLive == Boot \/ \E r \in Reqs : Step(r, {EmptyBody}, ConcFeeData)

\* Concurrent requests whose awaited calls all settle eventually: the event
\* loop resumes a handler once the promise it awaits has settled.
SpecLive ==
  /\ Init
  /\ [][NextLive]_vars
  /\ \A r \in Reqs : WF_vars(Settles(r, ConcFeeData))

(* ------------------------------ amount claims -------------------------- *)

\* Request r has read a balance that passed line 66, so lines 71-78 have
\* resolved its amount.
Resolved(r) == loc[r].balanceETH # Null /\ ~BelowReserve(loc[r].balanceETH)

\* Request r has got its nonce: control reached the building of the
\* transaction, line 94.
ReachedBuild(r) == loc[r].nonce # Null

\* C1: every request that reaches transaction building has a resolved amount
\* with 0 < amount <= balance - reserve, for the balance that request read;
\* a request whose resolved amount is <= 0 is answered 400 and builds no
\* transaction.
C1_AmountWithinFunds ==
  \A r \in Reqs :
    /\ ReachedBuild(r) =>
         /\ ~loc[r].ethAmount.nan
         /\ 0 < loc[r].ethAmount.v
         /\ loc[r].ethAmount.v <= loc[r].balanceETH - Reserve
    /\ (Resolved(r) /\ LeqZero(loc[r].ethAmount)) =>
         /\ pc[r] = "responded"
         /\ resp[r].status = 400
         /\ loc[r].tx = NoTx

\* C2: a request carrying a percentage p in [0,100], with a balance b >= r,
\* resolves the amount b*p/100 - r, and fails with the 400 insufficient-funds
\* response iff that amount is <= 0.
C2_PercentageAmount ==
  \A r \in Reqs :
    LET p == body[r].percentage
        b == loc[r].balanceETH
    IN  (Resolved(r) /\ p.t = "num" /\ 0 <= p.v /\ p.v <= 100) =>
          /\ loc[r].ethAmount = Num((b * p.v) \div 100 - Reserve)
          /\ ((b * p.v) \div 100 - Reserve <= 0) <=>
               (pc[r] = "responded" /\ resp[r].status = 400)

\* C3: a request carrying both percentage and amountUSD (whatever their
\* values, percentage 0 included) resolves its amount in percentage mode
\* alone; one carrying amountUSD but no percentage resolves it in fiat mode
\* alone.
C3_ModePriority ==
  \A r \in Reqs :
    LET b == body[r]
    IN  Resolved(r) =>
          /\ (b.percentage.t # "undef" /\ b.amountUSD.t # "undef") =>
               loc[r].ethAmount =
                 PercentageAmount(loc[r].balanceETH, b.percentage)
          /\ (b.percentage.t = "undef" /\ b.amountUSD.t # "undef") =>
               loc[r].ethAmount = FiatAmount(loc[r].balanceETH, b.amountUSD)

\* The native-amount aliases of a body, in the order line 77 reads them.
NativeAliases(b) == <<b.amountETH, b.amount, b.value, b.eth>>

\* C4: in native-amount mode the amount is min(v, balance - reserve), v being
\* the first present alias; the 0.01 fallback is used only when no alias is
\* present, so an explicit native amount of 0 fails with the 400
\* insufficient-funds response.
C4_NativeAmount ==
  \A r \in Reqs :
    LET b == body[r]
        present == {i \in 1..4 : NativeAliases(b)[i].t # "undef"}
        first == CHOOSE i \in present : \A j \in present : i <= j
        avail == loc[r].balanceETH - Reserve
    IN  (/\ Resolved(r)
         /\ b.percentage.t = "undef" /\ b.amountUSD.t = "undef"
         /\ \A i \in 1..4 : NativeAliases(b)[i].t \in {"undef", "num"}) =>
          IF present = {}
          THEN loc[r].ethAmount =
                 Num(IF FallbackAmount <= avail THEN FallbackAmount ELSE avail)
          ELSE LET v == NativeAliases(b)[first].v
               IN  /\ loc[r].ethAmount = Num(IF v <= avail THEN v ELSE avail)
                   /\ v = 0 => (pc[r] = "responded" /\ resp[r].status = 400)

(* ---------------------------- destination claim ------------------------ *)

\* The six destination fields of a body in their priority order.
DestFields(b) == <<b.to, b.toAddress, b.treasury, b.recipient,
                   b.coinbaseWallet, b.feeRecipient>>

\* C5: the destination is the first non-empty field in the order to,
\* toAddress, treasury, recipient, coinbaseWallet, feeRecipient, and the
\* default treasury address exactly when all six are empty; the built
\* transaction's destination and the response's 'to' are that address.
C5_Destination ==
  \A r \in Reqs :
    LET f == DestFields(body[r])
        given == {i \in 1..6 : f[i] # 0}
        expected == IF given = {} THEN TREASURY
                    ELSE f[CHOOSE i \in given : \A j \in given : i <= j]
    IN  /\ loc[r].tx # NoTx => loc[r].tx.to = expected
        /\ resp[r].status = 200 => resp[r].to = expected
        /\ loc[r].tx # NoTx => (loc[r].tx.to = TREASURY <=> given = {})

\* C5 witness: treasury and recipient are given, to and toAddress are not,
\* and the success response names the treasury field's address.
C5_Witness ==
  \E r \in Reqs :
    /\ body[r].to = 0 /\ body[r].toAddress = 0
    /\ body[r].treasury = 3 /\ body[r].recipient = 4
    /\ resp[r].status = 200
    /\ resp[r].to = 3
    /\ loc[r].tx.to = 3

(* -------------------------------- fee claim ---------------------------- *)

\* C6: the transaction has the dynamic-fee shape (type 2, maxFeePerGas,
\* maxPriorityFeePerGas, no gasPrice) exactly when the fee data this request
\* fetched has a maxFeePerGas, and otherwise the legacy shape with gasPrice
\* alone; a request that has not fetched fee data yet holds none, so nothing
\* is carried over from an earlier request.
C6_FeeShape ==
  \A r \in Reqs :
    LET fd == loc[r].feeData
        tx == loc[r].tx
    IN  /\ pc[r] \in {"idle", "probing", "init_ret", "await_balance",
                      "await_fee"} => (fd = NoFee /\ tx = NoTx)
        /\ tx # NoTx =>
             /\ fd \in FeeDataSet
             /\ fd.maxFeePerGas # Null =>
                  /\ tx.type = 2
                  /\ tx.maxFeePerGas = fd.maxFeePerGas
                  /\ tx.maxPriorityFeePerGas = fd.maxPriorityFeePerGas
                  /\ tx.gasPrice = Null
             /\ fd.maxFeePerGas = Null =>
                  /\ tx.type = Null
                  /\ tx.maxFeePerGas = Null
                  /\ tx.maxPriorityFeePerGas = Null
                  /\ tx.gasPrice = fd.gasPrice

\* C6 witness: the second request, after a first one signed a transaction,
\* fetched fee data with a legacy gas price only and built a legacy
\* transaction.
C6_Witness ==
  \E r \in Reqs :
    /\ served = 2
    /\ signedTxs[0] = 1
    /\ loc[r].feeData.maxFeePerGas = Null
    /\ loc[r].feeData.gasPrice = 25
    /\ loc[r].tx.nonce = 1
    /\ loc[r].tx.gasPrice = 25
    /\ loc[r].tx.type = Null
    /\ pc[r] = "await_sign"

(* ------------------------------ bootstrap claims ----------------------- *)

\* The candidates process p has probed so far, in the order of the probes.
Probes(p) == SelectSeq(calls[p], LAMBDA c : c.op = "probe")

C8_ConfigErrorIffNoKey ==
  \A r \in Reqs :
    (pc[r] = "responded" /\ loc[r].ret = "false") =>
      (resp[r].error = "Wallet not configured" <=> ~PRIVATE_KEY)

(* ------------------------------ reserve claim -------------------------- *)

\* The operations request r has issued.
Ops(r) == {calls[r][j].op : j \in 1..Len(calls[r])}

\* C9: a request that read a balance below the 0.002 reserve is answered 400
\* with the balance rounded to six decimals, whatever its body, and it has
\* fetched no fee data and no nonce and has signed and broadcast nothing.
C9_BelowReserve ==
  \A r \in Reqs :
    (loc[r].balanceETH # Null /\ loc[r].balanceETH < Reserve) =>
      /\ pc[r] = "responded"
      /\ resp[r].status = 400
      /\ 1000 * resp[r].balance - 500 <= loc[r].balanceETH
      /\ loc[r].balanceETH < 1000 * resp[r].balance + 500
      /\ Ops(r) \cap {"getFeeData", "getTransactionCount", "signTransaction",
                      "broadcastTransaction", "wait"} = {}
      /\ loc[r].tx = NoTx

\* C9 witness: a percentage request read the balance 0.0019996, below the
\* reserve, and was answered 400 with balance "0.002000".
C9_Witness ==
  \E r \in Reqs :
    /\ body[r].percentage = JNum(100)
    /\ loc[r].balanceETH = 1999600
    /\ resp[r].status = 400
    /\ resp[r].balance = 2000

(* -------------------------------- nonce claim -------------------------- *)

\* C10: under any interleaving of concurrent requests, no two transactions
\* signed by the process carry the same nonce.
C10_NoNonceReuse == \A n \in DOMAIN signedTxs : signedTxs[n] <= 1

(* ----------------------------- submission claims ----------------------- *)

\* The operations request r has issued after its bootstrap, in order.
OpsAfterInit(r) ==
  LET c == SelectSeq(calls[r], LAMBDA x : x.op # "probe")
  IN  [j \in 1..Len(c) |-> c[j].op]

\* C11: a request is answered 200 only after it fetched the nonce, signed,
\* broadcast and waited for one confirmation, in that order; blockNumber and
\* gasUsed of the response are the receipt's, and txHash, hash and
\* transactionHash all are the hash the broadcast returned.
C11_SuccessOrder ==
  \A r \in Reqs :
    resp[r].status = 200 =>
      /\ OpsAfterInit(r) = <<"getBalance", "getFeeData", "getTransactionCount",
                             "signTransaction", "broadcastTransaction", "wait">>
      /\ calls[r][Len(calls[r])] = Call("wait", 1)
      /\ signedTxs[loc[r].tx.nonce] >= 1
      /\ loc[r].txResponse = loc[r].tx
      /\ loc[r].txResponse # NoTx
      /\ resp[r].txHash = loc[r].txResponse
      /\ resp[r].hash = loc[r].txResponse
      /\ resp[r].transactionHash = loc[r].txResponse
      /\ loc[r].receipt.blockNumber = chain.height
      /\ chain.height >= 1
      /\ resp[r].blockNumber = loc[r].receipt.blockNumber
      /\ resp[r].gasUsed = loc[r].receipt.gasUsed
      /\ resp[r].gasUsed = GasLimit

\* C11 witness: the second request is answered 200 for its transaction of
\* nonce 1, mined in block 2.
C11_Witness ==
  \E r \in Reqs :
    /\ resp[r].status = 200
    /\ resp[r].hash.nonce = 1
    /\ resp[r].blockNumber = 2
    /\ loc[r].receipt.blockNumber = 2

\* Request r is being handled and has not been answered.
InFlight(r) == pc[r] \notin {"idle", "responded"}

\* C12: every failure of a step is answered by a JSON error; when every
\* awaited call settles, each request gets exactly one response, of status
\* 200, 400 or 500, and the server goes on listening.
C12_OneResponse ==
  /\ \A r \in Reqs : InFlight(r) ~> (pc[r] = "responded")
  /\ [][\A r \in Reqs :
          /\ InFlight(r) => /\ pc'[r] # "idle"
                            /\ resp[r] = NoResp
                            /\ (resp'[r] # NoResp <=> pc'[r] = "responded")
          /\ pc'[r] = "responded" => resp'[r].status \in {200, 400, 500}
          /\ pc[r] = "responded" => \/ resp'[r] = resp[r]
                                    \/ pc'[r] = "idle" /\ resp'[r] = NoResp
          /\ pc[0] = "listening" => pc'[0] = "listening"]_vars

\* C12 witness: a rejected broadcast was answered 500 while the other
\* request is still being handled.
C12_Witness ==
  \E r, q \in Reqs :
    /\ pc[r] = "responded"
    /\ resp[r].status = 500
    /\ resp[r].at = "await_broadcast"
    /\ InFlight(q)

\* A bootstrap attempt has bound an endpoint: the probe of the provider
\* object now in the global succeeded.
Bound == provider # 0 /\ probe.live = "ok"

\* C13: once an endpoint is bound, no request probes again or rebinds
\* provider or wallet, whether or not the signer key is set.
C13_BoundIsReused ==
  [][Bound => /\ provider' = provider
              /\ wallet' = wallet
              /\ probe' = probe
              /\ \A r \in Reqs : pc'[r] # "probing"]_vars

\* The same with the signer key set.
C13_BoundIsReusedWithKey ==
  [][(Bound /\ PRIVATE_KEY) => /\ provider' = provider
                               /\ wallet' = wallet
                               /\ probe' = probe
                               /\ \A r \in Reqs : pc'[r] # "probing"]_vars

\* C14: under every interleaving of bootstrap attempts, whenever provider
\* and wallet are both set and no attempt is in progress, the provider's
\* probe succeeded and the wallet is bound to that provider.
C14_QuiescentBinding ==
  (provider # 0 /\ wallet # 0 /\ \A p \in Procs : pc[p] # "probing")
    => (probe.live = "ok" /\ wallet = provider)

\* Request r has broadcast its transaction.
Broadcast(r) == loc[r].txResponse # NoTx

\* C15: the funds check of a request looks only at the balance that request
\* read, and that balance does not account for transactions still pending;
\* so two requests can each pass its own check and broadcast transfers that
\* together exceed balance - reserve.
C15_OwnBalanceOnly ==
  \A r \in Reqs :
    /\ (loc[r].balanceETH # Null /\ chain.height = 0)
         => loc[r].balanceETH = chain.balance
    /\ Broadcast(r) => /\ loc[r].tx.value > 0
                       /\ loc[r].tx.value <= loc[r].balanceETH - Reserve

\* C15 witness: two requests read the balance before either broadcast, both
\* have broadcast, and their values sum to more than balance - reserve.
C15_Witness ==
  \E r, q \in Reqs :
    /\ r # q
    /\ pc[r] = "await_wait" /\ pc[q] = "await_wait"
    /\ Broadcast(r) /\ Broadcast(q)
    /\ loc[r].balanceAtTx = 0 /\ loc[q].balanceAtTx = 0
    /\ loc[r].balanceETH = chain.balance /\ loc[q].balanceETH = chain.balance
    /\ loc[r].tx.value + loc[q].tx.value > chain.balance - Reserve

\* How many times request r has issued operation op.
Count(r, op) == Len(SelectSeq(calls[r], LAMBDA x : x.op = op))

\* C16: a request signs at most once and broadcasts at most once; a failure
\* of a step ends it with an error response, with no new signature,
\* broadcast or probe, and an answered request issues nothing more.
C16_NoRetry ==
  /\ [](\A r \in Reqs :
          /\ Count(r, "signTransaction") <= 1
          /\ Count(r, "broadcastTransaction") <= 1
          /\ \A i, j \in 1..Len(calls[r]) :
               (i < j /\ calls[r][j].op = "probe") => calls[r][i].op = "probe")
  /\ [][\A r \in Reqs :
          /\ (pc[r] \in Awaits /\ resp'[r].status = 500)
               => /\ pc'[r] = "responded"
                  /\ calls'[r] = calls[r]
                  /\ signedTxs' = signedTxs
                  /\ chain' = chain
          /\ pc[r] = "responded"
               => /\ calls'[r] \in {calls[r], <<>>}
                  /\ pc'[r] \in {"responded", "idle"}
                  /\ signedTxs' = signedTxs
                  /\ chain' = chain]_vars

\* C16 witness: the broadcast was rejected and the request was answered 500
\* after one signature and one broadcast.
C16_Witness ==
  \E r \in Reqs :
    /\ pc[r] = "responded"
    /\ resp[r].status = 500
    /\ resp[r].at = "await_broadcast"
    /\ Count(r, "signTransaction") = 1
    /\ Count(r, "broadcastTransaction") = 1

\* C17: the value of the transaction a request signs and broadcasts is the
\* amount its plan resolved, is greater than zero, and is the amount the
\* success response reports, also for amounts below 8 decimals of an ETH.
C17_ValueIsAmount ==
  \A r \in Reqs :
    loc[r].tx # NoTx =>
      /\ loc[r].tx.value = loc[r].ethAmount.v
      /\ loc[r].tx.value > 0
      /\ resp[r].status = 200 => resp[r].amount.v = resp[r].hash.value

\* The same for amounts that are whole multiples of 1e-8 ETH.
C17_ValueIsAmountAt8Decimals ==
  \A r \in Reqs :
    (loc[r].tx # NoTx /\ loc[r].ethAmount.v % 10 = 0) =>
      /\ loc[r].tx.value = loc[r].ethAmount.v
      /\ loc[r].tx.value > 0
      /\ resp[r].status = 200 => resp[r].amount.v = resp[r].hash.value

\* C18: a request whose transaction was broadcast has no response while its
\* wait is unsettled; it is answered only by the step in which the wait
\* resolves with a receipt or rejects, so a wait that never settles leaves
\* it pending for ever.  Meanwhile every other request in flight can go on.
C18_PendingUntilWaitSettles ==
  /\ [](\A r \in Reqs :
          pc[r] = "await_wait" =>
            /\ resp[r] = NoResp
            /\ \A q \in Reqs \ {r} :
                 InFlight(q) => ENABLED Settles(q, ConcFeeData))
  /\ [][\A r \in Reqs :
          (pc[r] = "await_wait" /\ pc'[r] # "await_wait") =>
            /\ pc'[r] = "responded"
            /\ \/ /\ resp'[r].status = 200
                  /\ chain'.height = chain.height + 1
                  /\ resp'[r].blockNumber = chain'.height
               \/ /\ resp'[r].status = 500
                  /\ resp'[r].at = "await_wait"]_vars

\* C18 witness: a request is still waiting for its confirmation, unanswered,
\* and a request that arrived after its broadcast has been answered.
C18_Witness ==
  \E r, q \in Reqs :
    /\ r # q
    /\ pc[r] = "await_wait"
    /\ resp[r] = NoResp
    /\ pc[q] = "responded"
    /\ resp[q].status # 0
    /\ loc[q].balanceAtTx = 1

====
